---- MODULE Spec2Model ----
(***************************************************************************)
(* Model of vedicastro/horary_chart.py: the KP sub-lord division table,    *)
(* get_horary_ascendant_degree, jd_to_datetime and                         *)
(* find_exact_ascendant_time, together with the parts of the Swiss         *)
(* Ephemeris binding (swe) the module calls.                               *)
(*                                                                         *)
(* Units.  Angles are integers in units of 1/180000 degree (0.02 arc       *)
(* second), so that both the table's arc-second boundaries and the         *)
(* tolerance 0.0001 degree (18 units) are exact.  Civil time is kept to    *)
(* the decisecond.  A Julian day held in a Python float is a record        *)
(* [day, ds, hi, lo]: a point of the decisecond grid (day number and       *)
(* decisecond of the day, UT) plus hi*65536 + lo units in the last place   *)
(* (ulps) of the double, the part the scan loop adds; the size of an ulp   *)
(* follows from the magnitude of the Julian day, as in IEEE 754 doubles.   *)
(***************************************************************************)
EXTENDS Integers, Sequences, FiniteSets, TLC

(***************************************************************************)
(* Angles                                                                  *)
(***************************************************************************)
UnitsPerDegree == 180000
UnitsPerArcSecond == 50

Deg(d) == d * UnitsPerDegree

\* line 87: the tolerance 0.0001 degree, in angle units
Tolerance == 18

FullCircle == Deg(360)

(***************************************************************************)
(* The division table (data/KP_SL_Divisions.csv, lines 15-25).             *)
(* The file is laid out by the KP construction: 27 nakshatras of 13:20:00  *)
(* each, every one cut into 9 subs proportional to the Vimshottari periods *)
(* starting from the nakshatra's own lord, and a sub that crosses a sign   *)
(* boundary cut in two at the boundary; signs are laid end to end from     *)
(* Aries.  Rows carry the sign and the from/to angle within the sign.      *)
(***************************************************************************)
SignNames == <<"Aries", "Taurus", "Gemini", "Cancer", "Leo", "Virgo", "Libra",
               "Scorpio", "Sagittarius", "Capricorn", "Aquarius", "Pisces">>

\* Vimshottari periods in years, in the order Ketu, Venus, Sun, Moon, Mars,
\* Rahu, Jupiter, Saturn, Mercury; a sub of y years spans 400*y arc seconds.
DasaYears == <<7, 20, 6, 10, 7, 18, 16, 19, 17>>

SignArcSeconds == 108000
NakshatraArcSeconds == 48000

\* degrees:minutes:seconds of an angle given in arc seconds
ToDMS(a) == <<a \div 3600, (a % 3600) \div 60, a % 60>>

\* One CSV row: the sign and the From_DMS / To_DMS angles within the sign of
\* the stretch [from, to) given in arc seconds of the zodiac.
CsvRow(from, to) ==
    LET s == from \div SignArcSeconds
    IN  [Sign |-> SignNames[s + 1],
         From_DMS |-> ToDMS(from - s * SignArcSeconds),
         To_DMS |-> ToDMS(to - s * SignArcSeconds)]

\* The rows of one sub: two when a sign boundary lies strictly inside it.
SubRows(from, to) ==
    LET b == ((to - 1) \div SignArcSeconds) * SignArcSeconds
    IN  IF from < b THEN <<CsvRow(from, b), CsvRow(b, to)>>
        ELSE <<CsvRow(from, to)>>

\* Where sub number sub (0..8) of nakshatra nak (0..26) starts, in arc seconds.
RECURSIVE SubStart(_, _)
SubStart(nak, sub) ==
    IF sub = 0 THEN nak * NakshatraArcSeconds
    ELSE SubStart(nak, sub - 1) + 400 * DasaYears[((nak + sub - 1) % 9) + 1]

RECURSIVE NakshatraRows(_, _)
NakshatraRows(nak, sub) ==
    IF sub = 9 THEN << >>
    ELSE SubRows(SubStart(nak, sub),
                 SubStart(nak, sub) + 400 * DasaYears[((nak + sub) % 9) + 1])
         \o NakshatraRows(nak, sub + 1)

RECURSIVE CsvRowsFrom(_)
CsvRowsFrom(nak) ==
    IF nak = 27 THEN << >>
    ELSE NakshatraRows(nak, 0) \o CsvRowsFrom(nak + 1)

CsvRows == CsvRowsFrom(0)

\* utils.dms_to_decdeg (line 6, used on lines 21-22): degrees + minutes/60 +
\* seconds/3600, here in angle units.
dms_to_decdeg(dms) ==
    (dms[1] * 3600 + dms[2] * 60 + dms[3]) * UnitsPerArcSecond

\* lines 17-25: the rows in file order, numbered 1..height, with the decimal
\* columns added.
KP_SL_DMS_DATA ==
    [i \in 1..Len(CsvRows) |->
        [SL_Div_Nr |-> i,
         Sign |-> CsvRows[i].Sign,
         From_DMS |-> CsvRows[i].From_DMS,
         To_DMS |-> CsvRows[i].To_DMS,
         From_DecDeg |-> dms_to_decdeg(CsvRows[i].From_DMS),
         To_DecDeg |-> dms_to_decdeg(CsvRows[i].To_DMS)]]

(***************************************************************************)
(* get_horary_ascendant_degree (lines 35-56)                               *)
(***************************************************************************)
\* A sign table with one entry shifted: Libra given Virgo's start.
sign_order_slip ==
    [s \in {SignNames[i] : i \in 1..12} |->
        IF s = "Libra" THEN Deg(150)
        ELSE Deg(30 * ((CHOOSE i \in 1..12 : SignNames[i] = s) - 1))]

\* lines 44-47
sign_order ==
    ("Aries" :> Deg(0)) @@ ("Taurus" :> Deg(30)) @@ ("Gemini" :> Deg(60)) @@
    ("Cancer" :> Deg(90)) @@ ("Leo" :> Deg(120)) @@ ("Virgo" :> Deg(150)) @@
    ("Libra" :> Deg(180)) @@ ("Scorpio" :> Deg(210)) @@
    ("Sagittarius" :> Deg(240)) @@ ("Capricorn" :> Deg(270)) @@
    ("Aquarius" :> Deg(300)) @@ ("Pisces" :> Deg(330))

\* A Python outcome: a value returned (with its type) or an exception raised.
Returned(type, value) == [how |-> "return", type |-> type, value |-> value]
Raised(type) == [how |-> "raise", type |-> type, value |-> "-"]
NotCalled == [how |-> "none", type |-> "-", value |-> "-"]

OutOfRangeMessage ==
    "SL Div Nr. out of range. Please provide a number between 1 and 249."

\* lines 39-56
get_horary_ascendant_degree(horary_nr) ==
    IF 1 <= horary_nr /\ horary_nr <= 249
    THEN LET row == SelectSeq(KP_SL_DMS_DATA,
                              LAMBDA r : r.SL_Div_Nr = horary_nr)
             data == row[1]
             sign_start_degree == sign_order[data.Sign]
             zodiac_degree_location == sign_start_degree + data.From_DecDeg
         IN  Returned("dict",
                      [Sign |-> data.Sign,
                       From_DMS |-> data.From_DMS,
                       From_DecDeg |-> data.From_DecDeg,
                       ZodiacDegreeLocation |-> zodiac_degree_location])
    ELSE Returned("str", OutOfRangeMessage)

(***************************************************************************)
(* Calendar and time scales of the Swiss Ephemeris (swe), as the module    *)
(* uses them.  A day number counts civil days (Gregorian calendar,         *)
(* beginning at 0h), so that the Julian day of a grid point is             *)
(* day - 0.5 + ds/864000.                                                  *)
(***************************************************************************)
DeciSecondsPerDay == 864000

\* swe_julday at 0h, Gregorian calendar (inside utc_time_zone and utc_to_jd)
DayNumber(year, month, day) ==
    LET a == (14 - month) \div 12
        y == year + 4800 - a
        m == month + 12 * a - 3
    IN  day + (153 * m + 2) \div 5 + 365 * y + y \div 4 - y \div 100
            + y \div 400 - 32045

\* swe_revjul, Gregorian calendar: the date of a day number
CalendarDate(n) ==
    LET a == n + 32044
        b == (4 * a + 3) \div 146097
        c == a - (146097 * b) \div 4
        d == (4 * c + 3) \div 1461
        e == c - (1461 * d) \div 4
        m == (5 * e + 2) \div 153
    IN  [year |-> 100 * b + d - 4800 + m \div 10,
         month |-> m + 3 - 12 * (m \div 10),
         day |-> e - (153 * m + 2) \div 5 + 1]

\* A civil date and time; dsec is the seconds field in deciseconds.
Civil(year, month, day, hour, minute, dsec) ==
    [year |-> year, month |-> month, day |-> day,
     hour |-> hour, minute |-> minute, dsec |-> dsec]

DeciSecondOfDay(c) == (c.hour * 3600 + c.minute * 60) * 10 + c.dsec

\* The civil date and time of decisecond ds of day number n.
CivilOf(n, ds) ==
    LET date == CalendarDate(n)
    IN  Civil(date.year, date.month, date.day,
              ds \div 36000, (ds % 36000) \div 600, ds % 600)

\* A UTC offset is given in tenths of an hour (+5.5 hours is 55).
OffsetDeciSeconds(offset) == offset * 3600

\* swe.utc_time_zone (called on lines 30 and 78): subtracts the offset from
\* the time of day and moves the date by at most one day.
utc_time_zone(c, offset) ==
    LET tjd == DayNumber(c.year, c.month, c.day)
        d == DeciSecondOfDay(c) - OffsetDeciSeconds(offset)
    IN  IF d < 0 THEN CivilOf(tjd - 1, d + DeciSecondsPerDay)
        ELSE IF d >= DeciSecondsPerDay
             THEN CivilOf(tjd + 1, d - DeciSecondsPerDay)
             ELSE CivilOf(tjd, d)

\* swe_deltat: ET - UT in deciseconds, for the years the model draws (about
\* 69.2 s in 2024, about 26 minutes in the year 1000).
DeltaT(year) ==
    IF year >= 2000 THEN 692 ELSE 15700

\* A grid point of the Julian-day scale, normalised.
JulianDay(day, ds) ==
    [day |-> day + ds \div DeciSecondsPerDay, ds |-> ds % DeciSecondsPerDay,
     hi |-> 0, lo |-> 0]

\* swe.utc_to_jd (called on line 79): the pair (jd_et, jd_ut) of a UTC civil
\* time, Julian day in Ephemeris Time first, in Universal Time second.
utc_to_jd(c) ==
    LET n == DayNumber(c.year, c.month, c.day)
        ds == DeciSecondOfDay(c)
    IN  <<JulianDay(n, ds + DeltaT(c.year)), JulianDay(n, ds)>>

(***************************************************************************)
(* Julian days as doubles.  Between 2^20 and 2^21 days an ulp is 2^-32     *)
(* day, between 2^21 and 2^22 it is 2^-31 day, from 2^22 on 2^-30 day; a   *)
(* day is DayHi * 65536 ulps.                                              *)
(***************************************************************************)
LimbBase == 65536

DayHi(jd) ==
    IF jd.day >= 4194304 THEN 16384
    ELSE IF jd.day >= 2097152 THEN 32768
    ELSE 65536

\* line 90: the double nearest to current_time + 1.0 / (24 * 60 * 60 * 10).
\* current_time is a whole number of ulps, so the sum is rounded to the
\* whole number of ulps nearest to a tenth of a second.
StepUlps(jd) ==
    (DayHi(jd) * 512 + 3375) \div 6750

AddUlps(jd, ulps) ==
    [jd EXCEPT !.hi = jd.hi + (jd.lo + ulps) \div LimbBase,
               !.lo = (jd.lo + ulps) % LimbBase]

\* jd + 1 (line 80): one day is exact in the double.
AddOneDay(jd) == [jd EXCEPT !.hi = jd.hi + DayHi(jd)]

\* a <= b for two doubles over the same grid point
LessEq(a, b) == a.hi < b.hi \/ (a.hi = b.hi /\ a.lo <= b.lo)

\* The whole deciseconds in the ulps part of a double:
\* floor((hi*65536 + lo) * 864000 / (DayHi*65536)), 864000 = 256 * 3375.
UlpDeciSeconds(jd) ==
    (jd.hi * 3375 + (jd.lo * 3375) \div LimbBase) \div (DayHi(jd) \div 256)

\* swe.jdut1_to_utc (line 28): the civil time of a Julian day taken as UT.
jdut1_to_utc(jdt) ==
    LET ds == jdt.ds + UlpDeciSeconds(jdt)
    IN  CivilOf(jdt.day + ds \div DeciSecondsPerDay, ds % DeciSecondsPerDay)

\* lines 27-33: the datetime keeps the civil fields (microseconds are below
\* the model's resolution).
jd_to_datetime(jdt, tz_offset) ==
    LET utc == jdut1_to_utc(jdt)
    IN  utc_time_zone(utc, -tz_offset)

\* lines 78-79 with the assignment's unpacking: the first element of the pair.
LocalToJulianDay(c, utc_offset) ==
    LET utc == utc_time_zone(c, utc_offset)
    IN  utc_to_jd(utc)[1]

(***************************************************************************)
(* The sidereal modes of swe and the ascendant                             *)
(***************************************************************************)
\* The mode swe is in before any set_sid_mode call.
SIDM_DEFAULT == "SIDM_FAGAN_BRADLEY"

\* A lookup that falls back on the default mode for a missing key.
SWE_AYANAMAS_get_or_default(ayanamsa) ==
    CASE ayanamsa = "Krishnamurti" -> "SIDM_KRISHNAMURTI"
      [] ayanamsa = "Krishnamurti_New" -> "SIDM_KRISHNAMURTI_VP291"
      [] ayanamsa = "Lahiri_1940" -> "SIDM_LAHIRI_1940"
      [] ayanamsa = "Lahiri_VP285" -> "SIDM_LAHIRI_VP285"
      [] ayanamsa = "Lahiri_ICRC" -> "SIDM_LAHIRI_ICRC"
      [] ayanamsa = "Raman" -> "SIDM_RAMAN"
      [] ayanamsa = "Yukteshwar" -> "SIDM_YUKTESHWAR"
      [] OTHER -> SIDM_DEFAULT

\* A table with two values exchanged.
SWE_AYANAMAS_get_swapped(ayanamsa) ==
    CASE ayanamsa = "Krishnamurti" -> "SIDM_KRISHNAMURTI_VP291"
      [] ayanamsa = "Krishnamurti_New" -> "SIDM_KRISHNAMURTI"
      [] ayanamsa = "Lahiri_1940" -> "SIDM_LAHIRI_1940"
      [] ayanamsa = "Lahiri_VP285" -> "SIDM_LAHIRI_VP285"
      [] ayanamsa = "Lahiri_ICRC" -> "SIDM_LAHIRI_ICRC"
      [] ayanamsa = "Raman" -> "SIDM_RAMAN"
      [] ayanamsa = "Yukteshwar" -> "SIDM_YUKTESHWAR"
      [] OTHER -> "None"

\* lines 9-11 and the lookup of line 77, with dict.get's None for a missing key
SWE_AYANAMAS_get(ayanamsa) ==
    CASE ayanamsa = "Krishnamurti" -> "SIDM_KRISHNAMURTI"
      [] ayanamsa = "Krishnamurti_New" -> "SIDM_KRISHNAMURTI_VP291"
      [] ayanamsa = "Lahiri_1940" -> "SIDM_LAHIRI_1940"
      [] ayanamsa = "Lahiri_VP285" -> "SIDM_LAHIRI_VP285"
      [] ayanamsa = "Lahiri_ICRC" -> "SIDM_LAHIRI_ICRC"
      [] ayanamsa = "Raman" -> "SIDM_RAMAN"
      [] ayanamsa = "Yukteshwar" -> "SIDM_YUKTESHWAR"
      [] OTHER -> "None"

\* The ascendant advances 360 degrees a day: 75 angle units a decisecond.
AscRate == 75

\* The ayanamsa swe subtracts in each mode.  The values stand for the
\* library's on the date of the question; neighbouring modes differ by the
\* ascendant's advance in one or two scan steps.
Ayanamsa(mode) ==
    CASE mode = "SIDM_KRISHNAMURTI" -> Deg(24)
      [] mode = "SIDM_KRISHNAMURTI_VP291" -> Deg(24) + AscRate
      [] mode = "SIDM_LAHIRI_ICRC" -> Deg(24) + 2 * AscRate
      [] mode = "SIDM_LAHIRI_1940" -> Deg(24) + 3 * AscRate
      [] mode = "SIDM_LAHIRI_VP285" -> Deg(24) + 4 * AscRate
      [] mode = "SIDM_FAGAN_BRADLEY" -> Deg(24) - AscRate
      [] mode = "SIDM_RAMAN" -> Deg(22)
      [] mode = "SIDM_YUKTESHWAR" -> Deg(23)

\* The ascendant's advance since 0h UT of the grid day at the instant jd.
AscAdvance(jd) ==
    LET den == DayHi(jd) \div 256
        num == jd.hi * 3375 + (jd.lo * 3375) \div LimbBase
    IN  AscRate * (jd.ds + num \div den) + (AscRate * (num % den)) \div den

\* swe.houses_ex(jd, lat, lon, b'P', flags = FLG_SIDEREAL)[0][0] (lines 85-86):
\* the sidereal ascendant in [0, 360) under the mode swe is in.  place is
\* the tropical ascendant of (lat, lon) at 0h UT.
houses_ex(jd, place, mode) ==
    (place + AscAdvance(jd) + FullCircle - Ayanamsa(mode)) % FullCircle

Abs(x) == IF x < 0 THEN -x ELSE x

\* A comparison that lost its abs().
Matches_signed(asc_lon_deg, horary_asc_deg) ==
    asc_lon_deg - horary_asc_deg < Tolerance

\* line 87
Matches(asc_lon_deg, horary_asc_deg) ==
    Abs(asc_lon_deg - horary_asc_deg) < Tolerance

\* A window that ends where it starts: the + 1 left out.
WindowEnd_empty(jd) == jd

\* line 80
WindowEnd(jd) == AddOneDay(jd)

\* A step of zero: 1 / (24 * 60 * 60 * 10) in integer division.
NextTime_zero(jd) == AddUlps(jd, 0)

\* line 90
NextTime(jd) == AddUlps(jd, StepUlps(jd))

\* line 89
MatchedTime(jd, utc_offset) == jd_to_datetime(jd, utc_offset)

(***************************************************************************)
(* State                                                                   *)
(***************************************************************************)
VARIABLES
    horary_number,  \* the argument of a get_horary_ascendant_degree call
    horary_asc,     \* its outcome
    civil,          \* a civil local time and offset given to the conversions
    civil_back,     \* the outcome of converting it to a Julian day and back
    sid_mode,       \* the sidereal mode swe is in (process-wide)
    serialized,     \* whether the callers serialize their calls
    pc,             \* per caller: where its find_exact_ascendant_time call is
    args,           \* per caller: the call's arguments
    jd_start,       \* per caller: the locals of the call
    jd_end,
    current_time,
    result,         \* per caller: the call's outcome
    sets,           \* per caller: set_sid_mode calls made
    conversions,    \* per caller: calendar / Julian-day conversions made
    iterations,     \* per caller: houses_ex computations made
    scan_modes,     \* per caller: the modes its houses_ex computations ran in
    disturbed       \* per caller: another call changed the mode during the call

vars == <<horary_number, horary_asc, civil, civil_back, sid_mode, serialized,
          pc, args, jd_start, jd_end, current_time, result, sets, conversions,
          iterations, scan_modes, disturbed>>

resolverVars == <<horary_number, horary_asc>>
conversionVars == <<civil, civil_back>>
searchVars == <<sid_mode, serialized, pc, args, jd_start, jd_end,
                current_time, result, sets, conversions, iterations, scan_modes,
                disturbed>>

Callers == {"A", "B"}

NoJd == [day |-> 0, ds |-> 0, hi |-> 0, lo |-> 0]

Active(c) == pc[c] \in {"set_sid_mode", "window", "scan"}

(***************************************************************************)
(* Operations                                                              *)
(***************************************************************************)
\* A call that resets swe to its default mode when the mode it asks for is
\* the one already set.
RequestedMode_reset(c) ==
    IF sid_mode = SWE_AYANAMAS_get(args[c].ayanamsa) THEN SIDM_DEFAULT
    ELSE SWE_AYANAMAS_get(args[c].ayanamsa)

\* line 77: the argument of set_sid_mode
RequestedMode(c) == SWE_AYANAMAS_get(args[c].ayanamsa)

\* A get_horary_ascendant_degree call.
Resolve ==
    /\ horary_asc.how = "none"
    /\ horary_asc' = get_horary_ascendant_degree(horary_number)
    /\ UNCHANGED <<horary_number, conversionVars, searchVars>>

\* The conversions of find_exact_ascendant_time (lines 78-79) followed by
\* jd_to_datetime with the same offset.
RoundTrip ==
    /\ civil_back.how = "none"
    /\ civil_back' =
           Returned("datetime",
                    jd_to_datetime(LocalToJulianDay(civil.time, civil.offset),
                                   civil.offset))
    /\ UNCHANGED <<civil, resolverVars, searchVars>>

\* A caller enters find_exact_ascendant_time; callers that serialize wait
\* for the call in progress.
Call(c) ==
    /\ pc[c] = "idle"
    /\ serialized => \A d \in Callers : ~Active(d)
    /\ pc' = [pc EXCEPT ![c] = "set_sid_mode"]
    /\ UNCHANGED <<resolverVars, conversionVars, sid_mode, serialized, args,
                   jd_start, jd_end, current_time, result, sets, conversions,
                   iterations, scan_modes, disturbed>>

\* line 77: set_sid_mode raises TypeError for None, before changing the mode.
SetSidMode(c) ==
    /\ pc[c] = "set_sid_mode"
    /\ LET mode == RequestedMode(c)
       IN  IF mode = "None"
           THEN /\ pc' = [pc EXCEPT ![c] = "raised"]
                /\ result' = [result EXCEPT ![c] = Raised("TypeError")]
                /\ UNCHANGED <<sid_mode, sets, disturbed>>
           ELSE /\ pc' = [pc EXCEPT ![c] = "window"]
                /\ sid_mode' = mode
                /\ sets' = [sets EXCEPT ![c] = @ + 1]
                /\ disturbed' = [d \in Callers |->
                       disturbed[d] \/ (d # c /\ Active(d) /\ sid_mode # mode)]
                /\ UNCHANGED result
    /\ UNCHANGED <<resolverVars, conversionVars, serialized, args, jd_start,
                   jd_end, current_time, conversions, iterations, scan_modes>>

\* lines 78-82
Window(c) ==
    /\ pc[c] = "window"
    /\ LET start == LocalToJulianDay(
                        Civil(args[c].year, args[c].month, args[c].day, 0, 0, 0),
                        args[c].utc_offset)
       IN  /\ jd_start' = [jd_start EXCEPT ![c] = start]
           /\ jd_end' = [jd_end EXCEPT ![c] = WindowEnd(start)]
           /\ current_time' = [current_time EXCEPT ![c] = start]
    /\ conversions' = [conversions EXCEPT ![c] = @ + 1]
    /\ pc' = [pc EXCEPT ![c] = "scan"]
    /\ UNCHANGED <<resolverVars, conversionVars, sid_mode, serialized, args,
                   result, sets, iterations, scan_modes, disturbed>>

\* lines 83-93: one test of the loop condition and, inside the window, one
\* pass of the loop body.
Scan(c) ==
    /\ pc[c] = "scan"
    /\ IF LessEq(current_time[c], jd_end[c])
       THEN LET asc_lon_deg == houses_ex(current_time[c], args[c].place,
                                         sid_mode)
            IN  /\ iterations' = [iterations EXCEPT ![c] = @ + 1]
                /\ conversions' = [conversions EXCEPT ![c] = @ + 1]
                /\ scan_modes' = [scan_modes EXCEPT ![c] = @ \cup {sid_mode}]
                /\ IF Matches(asc_lon_deg, args[c].horary_asc_deg)
                   THEN /\ result' = [result EXCEPT ![c] =
                               Returned("datetime",
                                        MatchedTime(current_time[c],
                                                    args[c].utc_offset))]
                        /\ pc' = [pc EXCEPT ![c] = "done"]
                        /\ UNCHANGED current_time
                   ELSE /\ current_time' = [current_time EXCEPT ![c] =
                               NextTime(current_time[c])]
                        /\ UNCHANGED <<result, pc>>
       ELSE /\ result' = [result EXCEPT ![c] = Returned("NoneType", "None")]
            /\ pc' = [pc EXCEPT ![c] = "done"]
            /\ UNCHANGED <<current_time, iterations, conversions, scan_modes>>
    /\ UNCHANGED <<resolverVars, conversionVars, sid_mode, serialized, args,
                   jd_start, jd_end, sets, disturbed>>

(***************************************************************************)
(* Inputs                                                                  *)
(***************************************************************************)
\* The instant of scan step k of a window that starts at jd: k steps of
\* StepUlps(jd) ulps each.
TimeAtStep(jd, k) ==
    LET step == StepUlps(jd)
        low == (k % LimbBase) * step
    IN  [jd EXCEPT !.hi = (k \div LimbBase) * step + low \div LimbBase,
                   !.lo = low % LimbBase]

\* lines 107-108: the target degree of a horary number
TargetOf(horary_nr) ==
    get_horary_ascendant_degree(horary_nr).value.ZodiacDegreeLocation

WindowStart(a) ==
    LocalToJulianDay(Civil(a.year, a.month, a.day, 0, 0, 0), a.utc_offset)

\* The arguments of a call at a place where, in the mode asked for, the
\* ascendant of scan step k is the target plus miss.
Question(year, month, day, utc_offset, ayanamsa, horary_nr, k, miss) ==
    LET a == [year |-> year, month |-> month, day |-> day,
              utc_offset |-> utc_offset]
        mode == SWE_AYANAMAS_get(ayanamsa)
        ayan == IF mode = "None" THEN 0 ELSE Ayanamsa(mode)
        target == TargetOf(horary_nr)
    IN  [year |-> year, month |-> month, day |-> day,
         utc_offset |-> utc_offset,
         place |-> (target + miss + ayan + 3 * FullCircle
                      - AscAdvance(TimeAtStep(WindowStart(a), k)))
                   % FullCircle,
         horary_asc_deg |-> target,
         ayanamsa |-> ayanamsa]

\* The horary number of the module's own example (line 103).
ExampleHoraryNumber == 34

\* A scan step in the last minute of the window.
LateStep == 863600

\* Questions whose scan is followed to its end: matches at the first step,
\* after two steps and late in the window, windows without a match (the
\* ascendant steps over the target), and an ayanamsa the table lacks.
FullQuestions ==
    { Question(2024, 2, 5, 55, "Krishnamurti", ExampleHoraryNumber, 0, 0),
      Question(2024, 2, 5, 55, "Krishnamurti", ExampleHoraryNumber, 2, -7),
      Question(2024, 2, 5, 55, "Krishnamurti", ExampleHoraryNumber, 2, 40),
      Question(2024, 2, 5, 55, "Lahiri_ICRC", ExampleHoraryNumber, LateStep, 0),
      Question(2024, 12, 31, -80, "Raman", 1, 1, 17),
      Question(1000, 12, 31, 0, "Krishnamurti", ExampleHoraryNumber, 3, 40),
      Question(2024, 2, 5, 55, "Chitrapaksha", ExampleHoraryNumber, 0, 0) }

MaxStartGap == 2

\* Questions for two callers: one date and place family, three ayanamsa names.
ShortQuestions ==
    { Question(2024, 2, 5, 55, ayanamsa, ExampleHoraryNumber, k, 0) :
        ayanamsa \in {"Krishnamurti", "Krishnamurti_New", "Chitrapaksha"},
        k \in 0..MaxStartGap }

MaxHoraryNumber == 250
HoraryNumbers == -1..MaxHoraryNumber

CivilDates == { <<2024, 2, 5>>, <<2024, 2, 29>>, <<2024, 12, 31>>,
                <<2024, 1, 1>>, <<1000, 12, 31>> }
CivilTimes == { Civil(d[1], d[2], d[3], h, m, sec * 10) :
                  d \in CivilDates, h \in {0, 9, 23}, m \in {0, 5, 59},
                  sec \in {0, 59} }
UtcOffsets == {0, 55, -80}

(***************************************************************************)
(* Specifications                                                          *)
(***************************************************************************)
NoCivil == [time |-> Civil(2024, 2, 5, 0, 0, 0), offset |-> 0]

InitResolverIdle == horary_number = ExampleHoraryNumber /\ horary_asc = NotCalled
InitConversionIdle == civil = NoCivil /\ civil_back = NotCalled
InitSearchLocals ==
    /\ sid_mode = SIDM_DEFAULT
    /\ pc = [c \in Callers |-> "idle"]
    /\ jd_start = [c \in Callers |-> NoJd]
    /\ jd_end = [c \in Callers |-> NoJd]
    /\ current_time = [c \in Callers |-> NoJd]
    /\ result = [c \in Callers |-> NotCalled]
    /\ sets = [c \in Callers |-> 0]
    /\ conversions = [c \in Callers |-> 0]
    /\ iterations = [c \in Callers |-> 0]
    /\ scan_modes = [c \in Callers |-> {}]
    /\ disturbed = [c \in Callers |-> FALSE]
InitSearchIdle ==
    /\ InitSearchLocals
    /\ serialized = TRUE
    /\ args = [c \in Callers |->
                 Question(2024, 2, 5, 55, "Krishnamurti", ExampleHoraryNumber, 0, 0)]

\* Two callers, serialized or not; each scan is followed for MaxScan passes.
MaxScan == 5

Init ==
    /\ InitResolverIdle
    /\ InitConversionIdle
    /\ InitSearchLocals
    /\ serialized \in BOOLEAN
    /\ args \in [Callers -> ShortQuestions]

Next ==
    \E c \in Callers :
        \/ Call(c)
        \/ SetSidMode(c)
        \/ Window(c)
        \/ (iterations[c] < MaxScan /\ Scan(c))

Spec == Init /\ [][Next]_vars

\* One caller, every scan followed to its end.
InitFull ==
    /\ InitResolverIdle
    /\ InitConversionIdle
    /\ InitSearchLocals
    /\ serialized = TRUE
    /\ \E q \in FullQuestions : args = [c \in Callers |-> q]

NextFull ==
    \/ Call("A")
    \/ SetSidMode("A")
    \/ Window("A")
    \/ Scan("A")

SpecFull == InitFull /\ [][NextFull]_vars

\* The resolver on every horary number of the range and its neighbours.
InitTable ==
    /\ horary_number \in HoraryNumbers
    /\ horary_asc = NotCalled
    /\ InitConversionIdle
    /\ InitSearchIdle

SpecTable == InitTable /\ [][Resolve]_vars

\* The conversions on a set of civil times and offsets.
InitConv ==
    /\ InitResolverIdle
    /\ civil \in [time : CivilTimes, offset : UtcOffsets]
    /\ civil_back = NotCalled
    /\ InitSearchIdle

SpecConv == InitConv /\ [][RoundTrip]_vars

(***************************************************************************)
(* Properties                                                              *)
(***************************************************************************)
\* The start of a sign: 0 for Aries, 30 for Taurus, ... 330 for Pisces.
SignStartDegree(sign) ==
    Deg(30 * ((CHOOSE i \in 1..12 : SignNames[i] = sign) - 1))

\* Within the tolerance of 0.0001 degree.
WithinTolerance(asc, target) == asc - target < 18 /\ target - asc < 18

\* The mode each recognized ayanamsa name stands for.
RecognizedNames == {"Krishnamurti", "Krishnamurti_New", "Lahiri_1940",
                    "Lahiri_VP285", "Lahiri_ICRC", "Raman", "Yukteshwar"}
ModeNamed(ayanamsa) ==
    CASE ayanamsa = "Krishnamurti" -> "SIDM_KRISHNAMURTI"
      [] ayanamsa = "Krishnamurti_New" -> "SIDM_KRISHNAMURTI_VP291"
      [] ayanamsa = "Lahiri_1940" -> "SIDM_LAHIRI_1940"
      [] ayanamsa = "Lahiri_VP285" -> "SIDM_LAHIRI_VP285"
      [] ayanamsa = "Lahiri_ICRC" -> "SIDM_LAHIRI_ICRC"
      [] ayanamsa = "Raman" -> "SIDM_RAMAN"
      [] ayanamsa = "Yukteshwar" -> "SIDM_YUKTESHWAR"

\* The ascendant of scan step k of caller c's window in the mode it asked for.
AscAtStep(c, k) ==
    houses_ex(TimeAtStep(jd_start[c], k), args[c].place,
              ModeNamed(args[c].ayanamsa))

\* The last scan step inside the window: floor(day / step), in ulps.
LastStep(jd) ==
    LET step == StepUlps(jd)
    IN  (DayHi(jd) \div step) * LimbBase
        + ((DayHi(jd) % step) * LimbBase) \div step

SameResult(r1, r2) ==
    /\ r1.how = r2.how
    /\ r1.type = r2.type
    /\ r1.type = "datetime" => r1.value = r2.value

\* C1: for every horary number in 1..249 the resolver returns the table's
\* entry of that index (sign and from-angle) with ZodiacDegreeLocation equal
\* to the sign's start degree plus the from-angle; when the from-angle lies
\* in [0, 30) degrees the result lies in [0, 360).
C1_ResolveInRange ==
    (horary_asc.how # "none" /\ horary_number \in 1..249) =>
        /\ horary_asc.how = "return"
        /\ horary_asc.type = "dict"
        /\ LET entry == KP_SL_DMS_DATA[horary_number]
               data == horary_asc.value
           IN  /\ entry.SL_Div_Nr = horary_number
               /\ data.Sign = entry.Sign
               /\ data.From_DMS = entry.From_DMS
               /\ data.From_DecDeg = entry.From_DecDeg
               /\ data.ZodiacDegreeLocation
                    = SignStartDegree(entry.Sign) + entry.From_DecDeg
               /\ (0 <= entry.From_DecDeg /\ entry.From_DecDeg < Deg(30)) =>
                    (0 <= data.ZodiacDegreeLocation
                     /\ data.ZodiacDegreeLocation < Deg(360))

\* C1 witness: the last division, in Pisces, has been resolved.
C1_Witness ==
    /\ horary_number = 249
    /\ horary_asc.how = "return"
    /\ horary_asc.type = "dict"
    /\ horary_asc.value.Sign = "Pisces"
    /\ horary_asc.value.From_DecDeg < Deg(30)

\* C2 (as claimed): a call with a horary number outside 1..249 fails with an
\* InvalidInput error instead of returning a value.
C2_OutOfRangeFails ==
    (horary_asc.how # "none" /\ horary_number \notin 1..249) =>
        (horary_asc.how = "raise" /\ horary_asc.type = "InvalidInput")

\* C3: a matched time is the local civil time of the first scan step whose
\* ascendant is within the tolerance of the target: that step is within the
\* tolerance, no earlier step is, and a match at the start of the window is
\* returned by the first iteration.
C3_FirstMatch ==
    \A c \in Callers :
        (result[c].type = "datetime") =>
            LET n == iterations[c] - 1
            IN  /\ n >= 0
                /\ WithinTolerance(AscAtStep(c, n), args[c].horary_asc_deg)
                /\ \A k \in 0..(n - 1) :
                     ~WithinTolerance(AscAtStep(c, k), args[c].horary_asc_deg)
                /\ result[c].value
                     = jd_to_datetime(TimeAtStep(jd_start[c], n),
                                      args[c].utc_offset)
                /\ current_time[c] = TimeAtStep(jd_start[c], n)

\* C3 witness: a match returned by the third iteration, after two steps that
\* were outside the tolerance.
C3_Witness ==
    /\ result["A"].type = "datetime"
    /\ iterations["A"] = 3
    /\ ~WithinTolerance(AscAtStep("A", 0), args["A"].horary_asc_deg)

\* C4: a finished call has returned normally; it returned None exactly when
\* no scan step of the window is within the tolerance, and then it made one
\* ascendant computation per scan step and set the mode once (no retry).
C4_NoneIffNoMatch ==
    \A c \in Callers :
        (pc[c] = "done") =>
            /\ result[c].how = "return"
            /\ result[c].type \in {"datetime", "NoneType"}
            /\ (result[c].type = "NoneType")
                 <=> (\A k \in 0..LastStep(jd_start[c]) :
                        ~WithinTolerance(AscAtStep(c, k),
                                         args[c].horary_asc_deg))
            /\ (result[c].type = "NoneType") =>
                 (iterations[c] = LastStep(jd_start[c]) + 1 /\ sets[c] = 1)

\* C4 witness: a call has returned None after the whole window.
C4_Witness ==
    /\ pc["A"] = "done"
    /\ result["A"].type = "NoneType"
    /\ iterations["A"] > 800000

\* C5 (as claimed): every matched datetime falls on the requested date.
C5_MatchOnRequestedDate ==
    \A c \in Callers :
        (result[c].type = "datetime") =>
            /\ result[c].value.year = args[c].year
            /\ result[c].value.month = args[c].month
            /\ result[c].value.day = args[c].day

\* C6 (as claimed): converting a civil local time to a Julian day and back
\* with the same offset gives the same date and a time within one second.
C6_RoundTripWithinOneSecond ==
    (civil_back.how = "return") =>
        /\ civil_back.value.year = civil.time.year
        /\ civil_back.value.month = civil.time.month
        /\ civil_back.value.day = civil.time.day
        /\ DeciSecondOfDay(civil_back.value) - DeciSecondOfDay(civil.time) <= 10
        /\ DeciSecondOfDay(civil.time) - DeciSecondOfDay(civil_back.value) <= 10

\* C7: a call with an unrecognized ayanamsa name ends with an exception
\* raised at the set_sid_mode line: it makes no calendar or Julian-day
\* conversion and no ascendant computation, does not change the mode and
\* produces neither a matched time nor None.
C7_UnknownAyanamsaFailsFirst ==
    \A c \in Callers :
        (args[c].ayanamsa \notin RecognizedNames) =>
            /\ pc[c] \in {"idle", "set_sid_mode", "raised"}
            /\ conversions[c] = 0
            /\ iterations[c] = 0
            /\ sets[c] = 0
            /\ jd_start[c] = NoJd
            /\ result[c].how \in {"none", "raise"}
            /\ (pc[c] = "raised") <=> (result[c].how = "raise")

\* C7 witness: a call with an unrecognized name has raised.
C7_Witness ==
    \E c \in Callers :
        /\ args[c].ayanamsa \notin RecognizedNames
        /\ pc[c] = "raised"
        /\ result[c].how = "raise"

\* C8: two finished calls with identical arguments, neither of which had
\* the mode changed under it by another call, have identical results.
C8_SameInputsSameResult ==
    \A c, d \in Callers :
        (/\ c # d
         /\ pc[c] = "done" /\ pc[d] = "done"
         /\ args[c] = args[d]
         /\ ~disturbed[c] /\ ~disturbed[d]) =>
            SameResult(result[c], result[d])

\* C8 witness: two finished calls with identical arguments, one after the
\* other, both with a matched time.
C8_Witness ==
    /\ serialized
    /\ pc["A"] = "done" /\ pc["B"] = "done"
    /\ args["A"] = args["B"]
    /\ result["A"].type = "datetime"
    /\ iterations["A"] >= 2

\* C9 (as claimed): a call makes at most 864,000 ascendant computations.
C9_AtMost864000 ==
    \A c \in Callers : iterations[c] <= 864000

\* C9 (amended): a call makes at most 864,005 ascendant computations, and
\* every pass of the loop that does not return moves current_time forward
\* (so the scan reaches the end of its window and the call terminates).
C9_BoundedScan ==
    /\ [](\A c \in Callers :
            /\ iterations[c] <= 864005
            /\ (pc[c] = "scan") =>
                  LessEq(current_time[c], NextTime(jd_end[c])))
    /\ [][\A c \in Callers :
            (pc[c] = "scan" /\ iterations'[c] # iterations[c]) =>
                \/ pc'[c] = "done"
                \/ (/\ LessEq(current_time[c], current_time'[c])
                    /\ current_time'[c] # current_time[c])]_vars

\* C9 witness: a call that has finished after 864,005 ascendant computations.
C9_Witness ==
    pc["A"] = "done" /\ iterations["A"] = 864005

\* C10: every call sets the process-wide mode once, before its scan; when
\* the callers serialize their calls every ascendant computation of a call
\* runs in the mode the call asked for.
C10_SerializedCallsKeepTheirMode ==
    \A c \in Callers :
        /\ sets[c] <= 1
        /\ (pc[c] \in {"window", "scan", "done"}) => sets[c] = 1
        /\ (iterations[c] > 0) => scan_modes[c] # {}
        /\ (serialized /\ args[c].ayanamsa \in RecognizedNames) =>
             (scan_modes[c] \subseteq {ModeNamed(args[c].ayanamsa)})

\* C10 witness: without serialization, an ascendant computation of one call
\* has run in the mode the other call set.
C10_Witness ==
    /\ ~serialized
    /\ \E c, d \in Callers :
         /\ c # d
         /\ args[c].ayanamsa \in RecognizedNames
         /\ args[d].ayanamsa \in RecognizedNames
         /\ ModeNamed(args[d].ayanamsa) # ModeNamed(args[c].ayanamsa)
         /\ ModeNamed(args[d].ayanamsa) \in scan_modes[c]
====
